---- MODULE Spec2Model ----
(***************************************************************************)
(* A model of the disposal registry (Bin) of src/index.client.ts and       *)
(* src/index.server.ts and of the component lifecycle built on it          *)
(* (BaseComponent, CharacterComponent and its Tools, EntityComponent,      *)
(* AvatarComponent), of BaseController and of the controllers' bootstrap.  *)
(*                                                                         *)
(* A handler runs to completion on the single scheduler thread, so every   *)
(* handler is one action.  What a handler calls, re-entrant calls made by  *)
(* a disposal callback included, is computed by the recursive operators    *)
(* below on a record of the mutable state (World).                         *)
(***************************************************************************)
EXTENDS Integers, Sequences, FiniteSets, TLC

\* Bounds of the model.
MaxNodes == 3
MaxDestroys == 2
MaxDepth == 3
MaxBatch == 2
MaxRuns == 2
MaxUserItems == 1
NComp == 2
NInst == 2
NTool == 2
MaxMoves == 2

VARIABLES
    program,     \* which script runs: "client" (index.client.ts) or "server"
    bins,        \* the Bin objects: head, tail and the nodes they link
    log,         \* per Bin, the disposal actions performed so far, in order
    status,      \* how the last handler ended: "ok", "throw", "overflow"
    hist,        \* the calls made on the free-standing Bin, in order
    observed,    \* <<what the last isEmpty() returned>>, <<>> once stale
    kind,        \* the class of each component, "none" before construction
    inst,        \* the instance each component wraps
    destructed,  \* BaseComponent.destructed
    active,      \* BaseComponent.active
    deferred,    \* the closures handed to task.defer, oldest first
    attachedEntity,  \* EntityComponent.attached, 0 where the Map has no entry
    attachedAvatar,  \* AvatarComponent.attached, 0 while undefined
    initCount,   \* how many times onInit has run on each component
    startCount,  \* how many times onStart has run on each component
    initDestroyed,   \* destroy() was called, and returned, inside onInit
    destroyCalls,    \* how many destroy() calls each component got from outside
    tools,       \* CharacterComponent.tools, the ordered sequence
    tracked,     \* CharacterComponent._tools, the membership set
    equipped,    \* CharacterComponent.equipped
    childAdded,  \* how many ChildAdded connections onInit has made per parent
    unequips,    \* how many times onUnequipped(tool) has been called
    anchors,     \* whether WaitForChild found both HumanoidRootPart and Humanoid
    client,      \* whether the component was constructed with a client Player
    toolParent,  \* tool.Parent of each Tool
    toolGone,    \* the Tool has been destroyed
    signalled,   \* instance.Destroying of the component's instance has fired
    moves,       \* how many times a Tool's parent has been changed
    boot         \* where the bootstrap at the end of the client script stands

binVars == <<bins, log, status>>
freeVars == <<hist, observed>>
compVars == <<kind, inst, destructed, active, deferred, attachedEntity,
              attachedAvatar, initCount, startCount, initDestroyed, destroyCalls,
              tools, tracked, equipped, childAdded, unequips>>
envVars == <<anchors, client, toolParent, toolGone, signalled, moves, boot>>
vars == <<program, binVars, freeVars, compVars, envVars>>

(***************************************************************************)
(* Bin.Item: a function, an RBXScriptConnection, a thread, or an object    *)
(* with destroy() or Destroy().  `act` is what the item's disposal action  *)
(* does besides being performed.                                           *)
(***************************************************************************)
FnPlain == [tag |-> "function", act |-> "plain"]
FnRedestroy == [tag |-> "function", act |-> "redestroy"]
FnReadd == [tag |-> "function", act |-> "readd"]
FnThrow == [tag |-> "function", act |-> "throw"]
Conn == [tag |-> "connection", act |-> "plain"]
Thread == [tag |-> "thread", act |-> "plain"]
ObjLower == [tag |-> "destroy", act |-> "plain"]
ObjUpper == [tag |-> "Destroy", act |-> "plain"]

FnOwnerDestroy == [tag |-> "function", act |-> "ownerDestroy"]
DestroyingConn == [tag |-> "connection", act |-> "Destroying"]
AncestryConn == [tag |-> "connection", act |-> "AncestryChanged"]

\* The two connections onTool makes for a tracked Tool.
ToolAncestryConn(t) == [tag |-> "connection", act |-> "toolAncestry", tool |-> t]
ToolDestroyingConn(t) == [tag |-> "connection", act |-> "toolDestroying", tool |-> t]

BinItems == {FnPlain, FnRedestroy, FnReadd, FnThrow, Conn, Thread, ObjLower, ObjUpper}

\* What a caller may put into a component's public _cleanup.
UserItems == {FnPlain, FnRedestroy, FnOwnerDestroy, FnThrow}

\* The free-standing Bin is bin 0; component c owns bin c (its _cleanup).
FreeBin == 0
Comps == 1..NComp
Insts == 1..NInst
Tools == 1..NTool

\* What a Tool's Parent may be: undefined, an instance a component wraps, the
\* client's Backpack, or some other place.
Undefined == 0
Backpack == NInst + 1
Workspace == NInst + 2
BinIds == {FreeBin} \cup Comps

EmptyBin == [nodes |-> <<>>, head |-> 0, tail |-> 0]

\* The mutable state a handler works on; its status starts "ok".
World ==
    [bins |-> bins, log |-> log, status |-> "ok",
     destructed |-> destructed, active |-> active,
     attachedEntity |-> attachedEntity, attachedAvatar |-> attachedAvatar,
     initCount |-> initCount, startCount |-> startCount,
     initDestroyed |-> initDestroyed,
     tools |-> tools, tracked |-> tracked, equipped |-> equipped,
     childAdded |-> childAdded, unequips |-> unequips]

\* add with the list taken for non-empty whenever a tail is known.
Bin_add_HeadFromTail(b, item) ==
    LET n == Len(b.nodes) + 1
        linked == IF b.tail # 0 THEN [b.nodes EXCEPT ![b.tail].next = n] ELSE b.nodes
    IN  [nodes |-> Append(linked, [item |-> item, next |-> 0]),
         head |-> IF b.tail = 0 THEN n ELSE b.head,
         tail |-> n]

\* add that forgets to link the old tail to the new node.
Bin_add_NoLink(b, item) ==
    LET n == Len(b.nodes) + 1
    IN  [nodes |-> Append(b.nodes, [item |-> item, next |-> 0]),
         head |-> IF b.head = 0 THEN n ELSE b.head,
         tail |-> n]

\* Bin.add: node = {item}; head ??= node; if (tail) tail.next = node; tail = node.
Bin_add(b, item) ==
    LET n == Len(b.nodes) + 1
        linked == IF b.tail # 0 THEN [b.nodes EXCEPT ![b.tail].next = n] ELSE b.nodes
    IN  [nodes |-> Append(linked, [item |-> item, next |-> 0]),
         head |-> IF b.head = 0 THEN n ELSE b.head,
         tail |-> n]

\* Bin.batch (server): the body of add for each argument, in order.
RECURSIVE Bin_batch(_, _)
Bin_batch(b, items) ==
    IF items = <<>> THEN b
    ELSE Bin_batch(Bin_add(b, Head(items)), Tail(items))

\* isEmpty that looks at the tail.
Bin_isEmpty_Tail(b) == b.tail = 0

\* Bin.isEmpty: head === undefined.
Bin_isEmpty(b) == b.head = 0

\* The branch of destroy()'s typeIs chain that an item takes.
DisposalOp(item) ==
    CASE item.tag = "function" -> "call"
      [] item.tag = "connection" -> "Disconnect"
      [] item.tag = "thread" -> "task.cancel"
      [] item.tag = "destroy" -> "destroy"
      [] item.tag = "Destroy" -> "Destroy"

\* destroy() has no room left on the call stack, or has a node to drain.
RECURSIVE Bin_destroy(_, _, _)
RECURSIVE DrainClient(_, _, _, _)
RECURSIVE DrainServer(_, _, _)
RECURSIVE Dispose(_, _, _, _)
RECURSIVE BaseComponent_destroy(_, _, _)

\* The disposal of node n of bin b is on record.
Performed(w, b, n) ==
    [w EXCEPT !.log[b] = Append(@, [node |-> n,
                                    op |-> DisposalOp(w.bins[b].nodes[n].item)])]

\* What the item's code does when its disposal action runs: a function may
\* throw, add to the Bin it is in, destroy that Bin, or destroy the component
\* that owns the Bin; Disconnect, task.cancel and the rest call nothing back.
Invoke(w, b, item, depth) ==
    CASE item.act = "throw" -> [w EXCEPT !.status = "throw"]
      [] item.act = "readd" -> [w EXCEPT !.bins[b] = Bin_add(@, FnPlain)]
      [] item.act = "redestroy" -> Bin_destroy(w, b, depth - 1)
      [] item.act = "ownerDestroy" -> BaseComponent_destroy(w, b, depth - 1)
      [] OTHER -> w

\* One pass of destroy()'s loop body up to the cursor's assignment: the
\* typeIs chain picks the item's disposal action and performs it.
Dispose(w, b, n, depth) ==
    Invoke(Performed(w, b, n), b, w.bins[b].nodes[n].item, depth)

\* A drain that never moves this.head.
SetHead_Skip(w, b, n) == w

\* this.head = head
SetHead(w, b, n) == [w EXCEPT !.bins[b].head = n]

\* Client: head = head.next; this.head = head; and the loop goes on.  An
\* error raised by the disposal action leaves the loop before that.
ClientAdvance(w, b, cur, depth) ==
    IF w.status # "ok" THEN w
    ELSE DrainClient(SetHead(w, b, w.bins[b].nodes[cur].next), b,
                     w.bins[b].nodes[cur].next, depth)

\* The loop goes on at a node picked before the disposal action ran.
AdvanceTo(w, b, next, depth) ==
    IF w.status # "ok" THEN w
    ELSE DrainClient(SetHead(w, b, next), b, next, depth)

\* A drain that reads head.next before it performs the disposal action.
DrainClient_CachedNext(w, b, cur, depth) ==
    IF cur = 0 THEN w
    ELSE AdvanceTo(Dispose(w, b, cur, depth), b, w.bins[b].nodes[cur].next, depth)

\* Client destroy(): let head = this.head; while (head) { dispose head.item;
\* head = head.next; this.head = head }.
DrainClient(w, b, cur, depth) ==
    IF cur = 0 THEN w
    ELSE ClientAdvance(Dispose(w, b, cur, depth), b, cur, depth)

\* Server: this.head = this.head.next; and the loop goes on.  Indexing an
\* undefined this.head raises.
ServerAdvance(w, b, depth) ==
    IF w.status # "ok" THEN w
    ELSE IF w.bins[b].head = 0 THEN [w EXCEPT !.status = "throw"]
    ELSE DrainServer(SetHead(w, b, w.bins[b].nodes[w.bins[b].head].next), b, depth)

\* Server destroy(): while (this.head) { dispose this.head.item;
\* this.head = this.head.next }.
DrainServer(w, b, depth) ==
    IF w.bins[b].head = 0 THEN w
    ELSE ServerAdvance(Dispose(w, b, w.bins[b].head, depth), b, depth)

\* Bin.destroy of the running script.  A call with no room left on the call
\* stack raises a stack overflow.
Bin_destroy(w, b, depth) ==
    IF depth = 0 THEN [w EXCEPT !.status = "overflow"]
    ELSE IF program = "client" THEN DrainClient(w, b, w.bins[b].head, depth)
    ELSE DrainServer(w, b, depth)

\* The flags set even when _cleanup.destroy() raised.
MarkDestructed_Always(w, c) == [w EXCEPT !.destructed[c] = TRUE, !.active[c] = FALSE]

\* destructed = true; active = false, reached when _cleanup.destroy() returned.
MarkDestructed(w, c) ==
    IF w.status # "ok" THEN w
    ELSE [w EXCEPT !.destructed[c] = TRUE, !.active[c] = FALSE]

\* BaseComponent.destroy: if (destructed) return; _cleanup.destroy();
\* destructed = true; active = false.  Component c owns bin c.
BaseComponent_destroy(w, c, depth) ==
    IF w.destructed[c] THEN w
    ELSE MarkDestructed(Bin_destroy(w, c, depth), c)

\* BaseComponent.onInit: _cleanup.add(instance.Destroying.Connect(() => this.destroy())).
BaseComponent_onInit(w, c) ==
    [w EXCEPT !.bins[c] = Bin_add(@, DestroyingConn)]

\* parent.GetChildren(), oldest Tool first; every child the model has is a Tool.
RECURSIVE ChildrenFrom(_, _)
ChildrenFrom(p, t) ==
    IF t > NTool THEN <<>>
    ELSE (IF toolParent[t] = p THEN <<t>> ELSE <<>>) \o ChildrenFrom(p, t + 1)

GetChildren(p) == ChildrenFrom(p, 1)

\* Whether node n of component c's _cleanup is, in w, a connection sig that
\* destroy() has not disconnected.
ConnectedIn(w, c, n, sig) ==
    /\ w.bins[c].nodes[n].item = sig
    /\ \A i \in 1..Len(w.log[c]) : w.log[c][i].node # n

\* CharacterComponent.onTool: connect tool.AncestryChanged and
\* tool.Destroying, and add both connections to _cleanup.
CharacterComponent_onTool(w, c, t) ==
    [w EXCEPT !.bins[c] = Bin_add(Bin_add(@, ToolAncestryConn(t)), ToolDestroyingConn(t))]

\* onPossibleTool that tracks a Tool whether or not it is tracked already.
CharacterComponent_onPossibleTool_NoCheck(w, c, t) ==
    CharacterComponent_onTool(
        [w EXCEPT !.tools[c] = Append(@, t), !.tracked[c] = @ \cup {t}], c, t)

\* CharacterComponent.onPossibleTool: if (tool.IsA("Tool") && !_tools.has(tool))
\* { tools.push(tool); _tools.add(tool); this.onTool(tool) }.
CharacterComponent_onPossibleTool(w, c, t) ==
    IF t \notin w.tracked[c]
    THEN CharacterComponent_onTool(
             [w EXCEPT !.tools[c] = Append(@, t), !.tracked[c] = @ \cup {t}], c, t)
    ELSE w

\* children.forEach((item) => this.onPossibleTool(item))
RECURSIVE ForEachChild(_, _, _)
ForEachChild(w, c, ts) ==
    IF ts = <<>> THEN w
    ELSE ForEachChild(CharacterComponent_onPossibleTool(w, c, Head(ts)), c, Tail(ts))

\* The first half of CharacterComponent.onInit: with a client, connect
\* backpack.ChildAdded and scan the Backpack.
ScanBackpack(w, c) ==
    IF client[c] THEN ForEachChild(w, c, GetChildren(Backpack)) ELSE w

\* instance.ChildAdded.Connect(...) (and backpack.ChildAdded.Connect(...) with
\* a client): the connections are kept nowhere, so nothing ever disconnects
\* them.
ConnectChildAdded(w, c) == [w EXCEPT !.childAdded[c] = @ + 1]

\* CharacterComponent.onInit, which overrides BaseComponent.onInit and does
\* not call it: Backpack connection and scan, then instance connection and
\* scan.
CharacterComponent_onInit(w, c) ==
    ForEachChild(ConnectChildAdded(ScanBackpack(w, c), c), c, GetChildren(inst[c]))

\* CharacterComponent.onEquipped: equipped.add(tool).
CharacterComponent_onEquipped(w, c, t) == [w EXCEPT !.equipped[c] = @ \cup {t}]

\* CharacterComponent.onUnequipped: equipped.delete(tool).
CharacterComponent_onUnequipped(w, c, t) ==
    [w EXCEPT !.equipped[c] = @ \ {t}, !.unequips[t] = @ + 1]

\* The AncestryChanged listener of onTool:
\* if (parent === this.instance) onEquipped(tool)
\* else if (parent !== undefined) onUnequipped(tool).
OnAncestryChanged(w, c, t, p) ==
    IF p = inst[c] THEN CharacterComponent_onEquipped(w, c, t)
    ELSE IF p # Undefined THEN CharacterComponent_onUnequipped(w, c, t)
    ELSE w

\* tools.indexOf(tool): the 0-based position, -1 when absent.
IndexOf(sq, t) ==
    IF \E i \in 1..Len(sq) : sq[i] = t
    THEN (CHOOSE i \in 1..Len(sq) : sq[i] = t /\ \A j \in 1..(i - 1) : sq[j] # t) - 1
    ELSE -1

\* tools.remove(index): table.remove at the 1-based position, which removes
\* nothing when the position is outside the array.
Remove(sq, i) ==
    IF (i + 1) \in 1..Len(sq)
    THEN [j \in 1..(Len(sq) - 1) |-> IF j < i + 1 THEN sq[j] ELSE sq[j + 1]]
    ELSE sq

\* The Destroying listener of onTool: ancestry.Disconnect();
\* _tools.delete(tool); equipped.delete(tool); tools.remove(tools.indexOf(tool)).
\* The Tool being destroyed, its AncestryChanged has no more effect anyway.
OnToolDestroying(w, c, t) ==
    [w EXCEPT !.tracked[c] = @ \ {t},
              !.equipped[c] = @ \ {t},
              !.tools[c] = Remove(@, IndexOf(@, t))]

\* tool.AncestryChanged reaches component c if its connection is alive.
HearAncestry(w, c, t, p) ==
    IF \E n \in 1..Len(w.bins[c].nodes) : ConnectedIn(w, c, n, ToolAncestryConn(t))
    THEN OnAncestryChanged(w, c, t, p)
    ELSE w

\* ChildAdded of the new parent reaches each of the n connections made by
\* the onInit executions of component c.
RECURSIVE HearChildAdded(_, _, _, _)
HearChildAdded(w, c, t, n) ==
    IF n = 0 THEN w
    ELSE HearChildAdded(CharacterComponent_onPossibleTool(w, c, t), c, t, n - 1)

\* How many ChildAdded connections of component c listen on parent p.
ListenersOn(w, c, p) ==
    IF kind[c] # "none" /\ (p = inst[c] \/ (p = Backpack /\ client[c]))
    THEN w.childAdded[c] ELSE 0

\* tool.Parent = p as component c gets to know of it.  The engine raises
\* ChildAdded on the new parent and AncestryChanged on the Tool; whether a
\* connection made by the ChildAdded listener already receives this
\* AncestryChanged depends on the engine's signal behaviour, so both orders
\* can be seen.
ToolMovedFor(w, c, t, p, order) ==
    IF order = "childAddedFirst"
    THEN HearAncestry(HearChildAdded(w, c, t, ListenersOn(w, c, p)), c, t, p)
    ELSE HearChildAdded(HearAncestry(w, c, t, p), c, t, ListenersOn(w, c, p))

RECURSIVE ToolMovedAll(_, _, _, _, _)
ToolMovedAll(w, c, t, p, order) ==
    IF c > NComp THEN w
    ELSE ToolMovedAll(ToolMovedFor(w, c, t, p, order), c + 1, t, p, order)

\* tool.Destroying reaches component c if its connection is alive.
HearToolDestroying(w, c, t) ==
    IF \E n \in 1..Len(w.bins[c].nodes) : ConnectedIn(w, c, n, ToolDestroyingConn(t))
    THEN OnToolDestroying(w, c, t)
    ELSE w

\* tool.Destroy(): Destroying is raised, then the parent becomes undefined.
RECURSIVE ToolDestroyedAll(_, _, _)
ToolDestroyedAll(w, c, t) ==
    IF c > NComp THEN w
    ELSE ToolDestroyedAll(HearAncestry(HearToolDestroying(w, c, t), c, t, Undefined),
                          c + 1, t)

\* EntityComponent.onInit: super.onInit(), then
\* _cleanup.add(instance.AncestryChanged.Connect(...destroy when parent is undefined)).
EntityComponent_onInit(w, c) ==
    [CharacterComponent_onInit(w, c) EXCEPT !.bins[c] = Bin_add(@, AncestryConn)]

\* this.onInit(), dispatched on the component's class.  An error raised
\* earlier inside onInit has left it already.
OnInit(w, c) ==
    CASE w.status # "ok" -> w
      [] kind[c] = "Base" -> BaseComponent_onInit(w, c)
      [] kind[c] = "Entity" -> EntityComponent_onInit(w, c)
      [] OTHER -> CharacterComponent_onInit(w, c)

\* A destroy() call made inside onInit has returned.
ReturnedInInit(w, c) ==
    IF w.status = "ok" THEN [w EXCEPT !.initDestroyed[c] = TRUE] ELSE w

\* this.destroy() called from inside onInit.
DestroyInInit(w, c) == ReturnedInInit(BaseComponent_destroy(w, c, MaxDepth), c)

\* onInit is entered.
EnterInit(w, c) == [w EXCEPT !.initCount[c] = @ + 1]

\* An execution of onInit.  hook tells whether code running inside it (an
\* override's own lines, a listener it triggers) calls this.destroy(), and
\* whether before or after the class's own registrations.
OnInitCalling(w, c, hook) ==
    CASE hook = "destroyFirst" -> OnInit(DestroyInInit(EnterInit(w, c), c), c)
      [] hook = "destroyLast" -> DestroyInInit(OnInit(EnterInit(w, c), c), c)
      [] OTHER -> OnInit(EnterInit(w, c), c)

\* BaseComponent.onStart: active = true.
BaseComponent_onStart(w, c) ==
    [w EXCEPT !.active[c] = TRUE, !.startCount[c] = @ + 1]

\* The rest of run() with the guard on destructed left out.
StartAfterInit_NoGuard(w, c) ==
    IF w.status # "ok" THEN w ELSE BaseComponent_onStart(w, c)

\* The rest of BaseComponent.run once onInit is over:
\* if (!this.destructed) this.onStart().
StartAfterInit(w, c) ==
    IF w.status # "ok" THEN w
    ELSE IF ~w.destructed[c] THEN BaseComponent_onStart(w, c)
    ELSE w

\* BaseComponent.run: onInit(); if (!destructed) onStart().
BaseComponent_run(w, c, hook) == StartAfterInit(OnInitCalling(w, c, hook), c)

\* An attachment that keeps the entry a key already has.
AttachEntity_KeepFirst(w, c) ==
    IF w.status # "ok" \/ w.attachedEntity[inst[c]] # 0 THEN w
    ELSE [w EXCEPT !.attachedEntity[inst[c]] = c]

\* EntityComponent.attached.set(this.instance, this), reached when
\* super.run() returned.
AttachEntity(w, c) ==
    IF w.status # "ok" THEN w
    ELSE [w EXCEPT !.attachedEntity[inst[c]] = c]

\* An attachment that keeps the avatar the slot already has.
AttachAvatar_KeepFirst(w, c) ==
    IF w.status # "ok" \/ w.attachedAvatar # 0 THEN w
    ELSE [w EXCEPT !.attachedAvatar = c]

\* AvatarComponent.attached = this, reached when super.run() returned.
AttachAvatar(w, c) ==
    IF w.status # "ok" THEN w
    ELSE [w EXCEPT !.attachedAvatar = c]

\* EntityComponent.run: super.run(); attached.set(this.instance, this).
EntityComponent_run(w, c, hook) == AttachEntity(BaseComponent_run(w, c, hook), c)

\* AvatarComponent.run: super.run(); AvatarComponent.attached = this.
AvatarComponent_run(w, c, hook) == AttachAvatar(BaseComponent_run(w, c, hook), c)

\* this.run(), dispatched on the component's class.
Run(w, c, hook) ==
    CASE kind[c] = "Entity" -> EntityComponent_run(w, c, hook)
      [] kind[c] = "Avatar" -> AvatarComponent_run(w, c, hook)
      [] OTHER -> BaseComponent_run(w, c, hook)

\* EntityComponent.getComponent(instance) and AvatarComponent.getComponent(),
\* 0 for undefined.
EntityComponent_getComponent(i) == attachedEntity[i]
AvatarComponent_getComponent == attachedAvatar

\* The deferred run() calls the constructors of a class schedule:
\* CharacterComponent's one, and one more in EntityComponent's and
\* AvatarComponent's own constructor.
ScheduledRuns(c, k) ==
    CASE k = "Base" -> <<>>
      [] k = "Character" -> <<c>>
      [] OTHER -> <<c, c>>

\* Whether node n of component c's _cleanup is a connection to signal sig
\* that has not been disconnected.
Connected(c, n, sig) ==
    /\ bins[c].nodes[n].item = sig
    /\ \A i \in 1..Len(log[c]) : log[c][i].node # n

----------------------------------------------------------------------------
\* The fields every object has when it is constructed.
InitFields ==
    /\ bins = [b \in BinIds |-> EmptyBin]
    /\ log = [b \in BinIds |-> <<>>]
    /\ status = "ok"
    /\ hist = <<>>
    /\ observed = <<>>
    /\ inst = [c \in Comps |-> 0]
    /\ destructed = [c \in Comps |-> FALSE]
    /\ active = [c \in Comps |-> FALSE]
    /\ deferred = <<>>
    /\ attachedEntity = [i \in Insts |-> 0]
    /\ attachedAvatar = 0
    /\ initCount = [c \in Comps |-> 0]
    /\ startCount = [c \in Comps |-> 0]
    /\ initDestroyed = [c \in Comps |-> FALSE]
    /\ destroyCalls = [c \in Comps |-> 0]
    /\ tools = [c \in Comps |-> <<>>]
    /\ tracked = [c \in Comps |-> {}]
    /\ equipped = [c \in Comps |-> {}]
    /\ childAdded = [c \in Comps |-> 0]
    /\ unequips = [t \in Tools |-> 0]
    /\ anchors = [c \in Comps |-> TRUE]
    /\ client = [c \in Comps |-> FALSE]
    /\ toolGone = [t \in Tools |-> FALSE]
    /\ signalled = [c \in Comps |-> FALSE]
    /\ moves = 0

\* Either script with its Bin class: nothing is constructed, no Tool is in
\* the data model, and the bootstrap is not looked at.
InitBin ==
    /\ program \in {"client", "server"}
    /\ InitFields
    /\ kind = [c \in Comps |-> "none"]
    /\ toolParent = [t \in Tools |-> Undefined]
    /\ boot = [phase |-> "none", i |-> 0]

\* The client script: the components and their registries exist, and no
\* component has been constructed yet.
InitComp ==
    /\ InitBin
    /\ program = "client"

\* A handler's result becomes the state.
Commit(w) ==
    /\ bins' = w.bins
    /\ log' = w.log
    /\ status' = w.status
    /\ destructed' = w.destructed
    /\ active' = w.active
    /\ attachedEntity' = w.attachedEntity
    /\ attachedAvatar' = w.attachedAvatar
    /\ initCount' = w.initCount
    /\ startCount' = w.startCount
    /\ initDestroyed' = w.initDestroyed
    /\ tools' = w.tools
    /\ tracked' = w.tracked
    /\ equipped' = w.equipped
    /\ childAdded' = w.childAdded
    /\ unequips' = w.unequips

NumDestroys == Cardinality({i \in 1..Len(hist) : hist[i] \in {"destroy", "destroy!"}})

\* bin.add(item)
Add(item) ==
    /\ Len(bins[FreeBin].nodes) < MaxNodes
    /\ bins' = [bins EXCEPT ![FreeBin] = Bin_add(@, item)]
    /\ hist' = Append(hist, "add")
    /\ status' = "ok"
    /\ observed' = <<>>
    /\ UNCHANGED <<program, log, compVars, envVars>>

\* bin.batch(...items), which only the server's Bin has
Batch(items) ==
    /\ program = "server"
    /\ Len(bins[FreeBin].nodes) + Len(items) <= MaxNodes
    /\ bins' = [bins EXCEPT ![FreeBin] = Bin_batch(@, items)]
    /\ hist' = hist \o [i \in 1..Len(items) |-> "add"]
    /\ status' = "ok"
    /\ observed' = <<>>
    /\ UNCHANGED <<program, log, compVars, envVars>>

\* The free-standing Bin's destroy() has ended, by returning or by raising.
DestroyEnded(w) ==
    /\ bins' = w.bins
    /\ log' = w.log
    /\ status' = w.status
    /\ hist' = Append(hist, IF w.status = "ok" THEN "destroy" ELSE "destroy!")

\* bin.destroy()
Destroy ==
    /\ NumDestroys < MaxDestroys
    /\ DestroyEnded(Bin_destroy(World, FreeBin, MaxDepth))
    /\ observed' = <<>>
    /\ UNCHANGED <<program, compVars, envVars>>

\* bin.isEmpty()
IsEmpty ==
    /\ observed' = <<Bin_isEmpty(bins[FreeBin])>>
    /\ status' = "ok"
    /\ UNCHANGED <<program, bins, log, hist, compVars, envVars>>

BatchArgs == UNION {[1..k -> BinItems] : k \in 0..MaxBatch}

NextBin ==
    \/ \E item \in BinItems : Add(item)
    \/ \E items \in BatchArgs : Batch(items)
    \/ Destroy
    \/ IsEmpty

SpecBin == InitBin /\ [][NextBin]_vars

----------------------------------------------------------------------------
(* Properties of the free-standing Bin, checked under SpecBin.             *)

FreeNodes == bins[FreeBin].nodes
FreeLog == log[FreeBin]
IsAdd(i) == hist[i] = "add"
Returned(i) == hist[i] = "destroy"

\* The calls so far are one or more add calls followed by one destroy()
\* that returned.
AddsThenOneDestroy ==
    /\ Len(hist) >= 2
    /\ Returned(Len(hist))
    /\ \A i \in 1..(Len(hist) - 1) : IsAdd(i)

\* C1: after add calls (batch included) followed by one destroy(), on the
\* client Bin and on the server Bin, the disposal actions performed are
\* exactly those of the added items, each once, in the order of the adds, and
\* each is the action destroy() has for that kind of item.
C1_FifoExactlyOnce ==
    AddsThenOneDestroy =>
        FreeLog = [i \in 1..Len(FreeNodes) |->
                      [node |-> i, op |-> DisposalOp(FreeNodes[i].item)]]

\* Three items of different kinds were added, and destroy() has drained them.
C1_Witness ==
    /\ AddsThenOneDestroy
    /\ Len(FreeLog) = 3
    /\ FreeLog[1].op # FreeLog[2].op
    /\ FreeLog[2].op # FreeLog[3].op

\* C6: isEmpty() is true before any add, false after one or more adds with no
\* destroy() since, true after destroy() has returned; and what isEmpty()
\* returned is what it returns again while no add or destroy() comes between.
C6_IsEmptyTracksAddAndDestroy ==
    /\ (\A i \in 1..Len(hist) : ~IsAdd(i)) => Bin_isEmpty(bins[FreeBin])
    /\ (hist # <<>> /\ IsAdd(Len(hist))) => ~Bin_isEmpty(bins[FreeBin])
    /\ (hist # <<>> /\ Returned(Len(hist))) => Bin_isEmpty(bins[FreeBin])
    /\ observed # <<>> => observed[1] = Bin_isEmpty(bins[FreeBin])

\* isEmpty() has answered true after adds and a destroy().
C6_Witness ==
    /\ Len(hist) >= 3
    /\ Returned(Len(hist))
    /\ IsAdd(1)
    /\ observed = <<TRUE>>

\* C7 as stated: once a destroy() has returned, isEmpty() is true ever after.
C7_NeverRefilled ==
    (\E i \in 1..Len(hist) : Returned(i)) => Bin_isEmpty(bins[FreeBin])

\* C7 as the code has it: once a destroy() has returned, isEmpty() is true
\* exactly as long as no add has followed the last destroy() that returned; an
\* add after it puts the item in the Bin, pending, and isEmpty() is false.
C7_EmptyUntilNextAdd ==
    \A i \in 1..Len(hist) :
        (Returned(i) /\ \A j \in (i + 1)..Len(hist) : ~Returned(j)) =>
            (Bin_isEmpty(bins[FreeBin]) <=> \A j \in (i + 1)..Len(hist) : ~IsAdd(j))

\* A Bin was destroyed, then added to: the item is pending.
C7_Witness ==
    /\ Len(hist) >= 3
    /\ Returned(Len(hist) - 1)
    /\ IsAdd(Len(hist))
    /\ ~Bin_isEmpty(bins[FreeBin])

\* w is what a destroy() call that returned has made of the present state of
\* the free-standing Bin: the Bin is empty, and every item added while the
\* call ran was disposed by it, once, after the items added before it.
ReaddedAreDrained(w) ==
    /\ Bin_isEmpty(w.bins[FreeBin])
    /\ \A n \in (Len(FreeNodes) + 1)..Len(w.bins[FreeBin].nodes) :
           /\ Cardinality({i \in (Len(FreeLog) + 1)..Len(w.log[FreeBin]) :
                               w.log[FreeBin][i].node = n}) = 1
           /\ \A i, j \in (Len(FreeLog) + 1)..Len(w.log[FreeBin]) :
                  (w.log[FreeBin][j].node = n /\ w.log[FreeBin][i].node < n) => i < j

\* C19: from any state of the client or server Bin, when a disposal action
\* of a running destroy() adds an item to the same Bin, be it the action of
\* the last item, that destroy() disposes the new item too, exactly once and
\* after the items added before it, and isEmpty() is true when it returns.
C19_ReentrantAddIsDrained ==
    Bin_destroy(World, FreeBin, MaxDepth).status = "ok" =>
        ReaddedAreDrained(Bin_destroy(World, FreeBin, MaxDepth))

\* The last of two items added a third while destroy() ran: all three were
\* disposed in order and the Bin is empty.
C19_Witness ==
    /\ hist = <<"add", "add", "destroy">>
    /\ FreeNodes[2].item = FnReadd
    /\ Len(FreeNodes) = 3
    /\ [i \in 1..Len(FreeLog) |-> FreeLog[i].node] = <<1, 2, 3>>
    /\ Bin_isEmpty(bins[FreeBin])

----------------------------------------------------------------------------
KindNames == {"Base", "Character", "Entity", "Avatar"}

UsedInsts == {inst[c] : c \in {x \in Comps : kind[x] # "none"}}

UserItemCount ==
    Cardinality({<<c, n>> \in Comps \X (1..(MaxNodes + 2 * MaxRuns)) :
                    n <= Len(bins[c].nodes) /\ bins[c].nodes[n].item \in UserItems})

\* new k(i, cl): components are numbered in the order they are constructed,
\* and instances in the order they are first wrapped.  found tells whether
\* both WaitForChild calls of CharacterComponent's constructor returned a
\* child before their 5 seconds were over; either way the constructor stores
\* what they returned and goes on to task.defer.  BaseComponent's constructor
\* waits for nothing and takes no client.
Construct(c, k, i, found, cl) ==
    /\ kind[c] = "none"
    /\ k = "Base" => (found /\ ~cl)
    /\ \A x \in Comps : x < c => kind[x] # "none"
    /\ \A j \in Insts : j < i => j \in UsedInsts
    /\ kind' = [kind EXCEPT ![c] = k]
    /\ inst' = [inst EXCEPT ![c] = i]
    /\ anchors' = [anchors EXCEPT ![c] = found]
    /\ client' = [client EXCEPT ![c] = cl]
    /\ deferred' = deferred \o ScheduledRuns(c, k)
    /\ status' = "ok"
    /\ UNCHANGED <<program, bins, log, freeVars, destructed, active, attachedEntity,
                   attachedAvatar, initCount, startCount, initDestroyed, destroyCalls,
                   tools, tracked, equipped, childAdded, unequips,
                   toolParent, toolGone, signalled, moves, boot>>

\* The scheduler resumes the oldest deferred closure, () => this.run().
RunDeferred(hook) ==
    /\ deferred # <<>>
    /\ Commit(Run(World, Head(deferred), hook))
    /\ deferred' = Tail(deferred)
    /\ UNCHANGED <<program, freeVars, kind, inst, destroyCalls, envVars>>

\* component.run() called by its owner, for a class that schedules none.
RunCall(c, hook) ==
    /\ kind[c] = "Base"
    /\ initCount[c] < MaxRuns
    /\ Commit(Run(World, c, hook))
    /\ UNCHANGED <<program, freeVars, kind, inst, deferred, destroyCalls, envVars>>

\* component.destroy() called from outside.
DestroyCall(c) ==
    /\ kind[c] # "none"
    /\ destroyCalls[c] < MaxDestroys
    /\ Commit(BaseComponent_destroy(World, c, MaxDepth))
    /\ destroyCalls' = [destroyCalls EXCEPT ![c] = @ + 1]
    /\ UNCHANGED <<program, freeVars, kind, inst, deferred, envVars>>

\* The listener BaseComponent.onInit connects, () => this.destroy(), resumed
\* on its own thread.
OnDestroying(w, c) == BaseComponent_destroy([w EXCEPT !.status = "ok"], c, MaxDepth)

\* instance.Destroying reaches, oldest first, every connection of component
\* c's _cleanup, from node n on, that is still connected when its turn comes.
RECURSIVE HearDestroying(_, _, _)
HearDestroying(w, c, n) ==
    IF n > Len(w.bins[c].nodes) THEN w
    ELSE HearDestroying(IF ConnectedIn(w, c, n, DestroyingConn)
                        THEN OnDestroying(w, c) ELSE w,
                        c, n + 1)

\* The instance component c wraps is destroyed: its Destroying signal fires,
\* once, and whatever listens to it runs.
DestroyingFired(c) ==
    /\ kind[c] # "none"
    /\ ~signalled[c]
    /\ signalled' = [signalled EXCEPT ![c] = TRUE]
    /\ Commit(HearDestroying(World, c, 1))
    /\ UNCHANGED <<program, freeVars, kind, inst, deferred, destroyCalls,
                   anchors, client, toolParent, toolGone, moves, boot>>

\* instance.AncestryChanged fires with an undefined parent: the listener of
\* EntityComponent.onInit runs.
AncestryCleared(c) ==
    /\ \E n \in 1..Len(bins[c].nodes) : Connected(c, n, AncestryConn)
    /\ destroyCalls[c] < MaxDestroys
    /\ Commit(BaseComponent_destroy(World, c, MaxDepth))
    /\ destroyCalls' = [destroyCalls EXCEPT ![c] = @ + 1]
    /\ UNCHANGED <<program, freeVars, kind, inst, deferred, envVars>>

\* component._cleanup.add(item) called from outside.
CleanupAdd(c, item) ==
    /\ kind[c] # "none"
    /\ UserItemCount < MaxUserItems
    /\ bins' = [bins EXCEPT ![c] = Bin_add(@, item)]
    /\ status' = "ok"
    /\ UNCHANGED <<program, log, freeVars, compVars, envVars>>

Hooks == {"none", "destroyFirst", "destroyLast"}

\* The life of one component of any class, with whatever its owner may put
\* into its _cleanup and whatever onInit may call.
NextLife ==
    \/ \E k \in KindNames : Construct(1, k, 1, TRUE, FALSE)
    \/ \E hook \in Hooks : RunDeferred(hook)
    \/ \E hook \in Hooks : RunCall(1, hook)
    \/ DestroyCall(1)
    \/ DestroyingFired(1)
    \/ AncestryCleared(1)
    \/ \E item \in UserItems : CleanupAdd(1, item)

SpecLife == InitComp /\ [][NextLife]_vars

\* The components that attach themselves, several of them on the same or on
\* different instances.
NextAttach ==
    \/ \E c \in Comps, k \in {"Entity", "Avatar"}, i \in Insts, found \in BOOLEAN :
           Construct(c, k, i, found, FALSE)
    \/ RunDeferred("none")
    \/ \E c \in Comps : DestroyCall(c)
    \/ \E c \in Comps : AncestryCleared(c)

SpecAttach == InitComp /\ [][NextAttach]_vars

----------------------------------------------------------------------------
(* Properties of one component and its _cleanup, checked under SpecLife.   *)

\* How many times the disposal action of node n of bin b was performed.
TimesDisposed(b, n) ==
    Cardinality({i \in 1..Len(log[b]) : log[b][i].node = n})

\* What a call of _cleanup.destroy(), or of destroy(), on component c would
\* make of the present state.
AfterBinDestroy(c) == Bin_destroy(World, c, MaxDepth)
AfterDestroy(c) == BaseComponent_destroy(World, c, MaxDepth)

\* C2: from any state, a destroy() that returns leaves a state (registry,
\* disposal actions performed, destructed, active) that a second destroy()
\* right after it does not change, on a component's Bin and on the component;
\* and destroy() on a destructed component changes nothing at all.
C2_DestroyIdempotent ==
    \A c \in Comps :
        /\ AfterBinDestroy(c).status = "ok" =>
               Bin_destroy(AfterBinDestroy(c), c, MaxDepth) = AfterBinDestroy(c)
        /\ AfterDestroy(c).status = "ok" =>
               BaseComponent_destroy(AfterDestroy(c), c, MaxDepth) = AfterDestroy(c)
        /\ destructed[c] => AfterDestroy(c) = World

\* A component with two connections in its _cleanup got destroy() twice: both
\* were disconnected, once each.
C2_Witness ==
    \E c \in Comps :
        /\ destroyCalls[c] = 2
        /\ destructed[c]
        /\ Len(log[c]) = 2
        /\ Len(bins[c].nodes) = 2

\* C3 as stated: an item whose disposal action calls destroy() again, on its
\* Bin or on the component that owns the Bin, is disposed once and no more,
\* and the drain comes to an end instead of exhausting the call stack.
C3_ReentrantDestroyDisposesOnce ==
    /\ status # "overflow"
    /\ \A c \in Comps : \A n \in 1..Len(bins[c].nodes) :
           bins[c].nodes[n].item.act \in {"redestroy", "ownerDestroy"} =>
               TimesDisposed(c, n) <= 1

\* C4: once destroy() was called inside a component's onInit, no step calls
\* its onStart, neither the run() that onInit belongs to nor a later one, and
\* the component is not active.
C4_NoStartAfterDestroyInInit ==
    [][\A c \in Comps :
          initDestroyed'[c] => (startCount'[c] = startCount[c] /\ ~active'[c])]_vars

\* A component destroyed inside its first onInit was run again, and has never
\* been started.
C4_Witness ==
    \E c \in Comps :
        /\ initDestroyed[c]
        /\ initCount[c] = 2
        /\ startCount[c] = 0
        /\ ~active[c]

\* The caller has caught the error and goes on.
Caught(w) == [w EXCEPT !.status = "ok"]

\* first is the state a destroy() of component c that raised has left, and
\* second the state its retry leaves: the retry begins with the item that
\* raised, and performs no disposal action the first call completed.
RetryResumes(c, first, second) ==
    /\ ~first.destructed[c]
    /\ Len(second.log[c]) > Len(first.log[c])
    /\ second.log[c][Len(first.log[c]) + 1].node = first.log[c][Len(first.log[c])].node
    /\ \A i \in (Len(log[c]) + 1)..(Len(first.log[c]) - 1) :
           \A j \in (Len(first.log[c]) + 1)..Len(second.log[c]) :
               second.log[c][j].node # first.log[c][i].node

\* C18: from any state, if a disposal action throws during destroy(), the
\* error reaches the caller, the component is not marked destructed, and a
\* retry disposes none of the items disposed before the failing one: it
\* attempts the failing item and what follows it.
C18_ThrowEscapesAndRetryResumes ==
    \A c \in Comps :
        (~destructed[c] /\ AfterDestroy(c).status = "throw") =>
            RetryResumes(c, AfterDestroy(c),
                         BaseComponent_destroy(Caught(AfterDestroy(c)), c, MaxDepth))

\* A component whose _cleanup holds a connection and then a function that
\* throws got destroy() twice: both calls raised, the connection was
\* disconnected once and the function called twice.
C18_Witness ==
    \E c \in Comps :
        /\ status = "throw"
        /\ destroyCalls[c] = 2
        /\ ~destructed[c]
        /\ Len(bins[c].nodes) = 2
        /\ bins[c].nodes[2].item = FnThrow
        /\ [i \in 1..Len(log[c]) |-> log[c][i].node] = <<1, 2, 2>>

\* C17 as stated: when the Destroying signal of its instance fires, a
\* component that has completed run() ends destructed, not active, with its
\* _cleanup drained.
C17_DestroyingDestroys ==
    [][\A c \in Comps :
          (signalled'[c] /\ ~signalled[c] /\ startCount[c] >= 1) =>
              (destructed'[c] /\ ~active'[c] /\ Bin_isEmpty(bins'[c]))]_vars

\* C5 as stated: onInit runs at most once on a component.
C5_InitAtMostOnce == \A c \in Comps : initCount[c] <= 1

----------------------------------------------------------------------------
(* Properties of the attachment registries, checked under SpecAttach.      *)

\* C8 as stated: what getComponent returns is never a destructed component.
C8_NoDestroyedAttachment ==
    \A c \in Comps :
        destructed[c] =>
            /\ kind[c] = "Entity" => EntityComponent_getComponent(inst[c]) # c
            /\ kind[c] = "Avatar" => AvatarComponent_getComponent # c

\* run() of component c returns in this step.
RunReturns(c) == initCount'[c] = initCount[c] + 1 /\ status' = "ok"

\* C9: when run() of an EntityComponent returns, getComponent of its instance
\* is that component, whatever was attached under the instance before, and
\* likewise for the AvatarComponent slot; an entry changes only so.
C9_LastWriterWins ==
    [][/\ \A c \in Comps :
             RunReturns(c) =>
                 /\ kind[c] = "Entity" => attachedEntity'[inst[c]] = c
                 /\ kind[c] = "Avatar" => attachedAvatar' = c
       /\ \A i \in Insts :
             attachedEntity'[i] # attachedEntity[i] =>
                 \E c \in Comps : RunReturns(c) /\ inst[c] = i /\ attachedEntity'[i] = c
       /\ attachedAvatar' # attachedAvatar =>
             \E c \in Comps : RunReturns(c) /\ attachedAvatar' = c]_vars

\* Two EntityComponents on one instance, and two AvatarComponents, have all
\* been run and started, the first-constructed ones first: the registries
\* return the later ones.
C9_Witness ==
    \/ /\ kind[1] = "Entity" /\ kind[2] = "Entity"
       /\ inst[1] = inst[2]
       /\ startCount[1] = 2 /\ startCount[2] >= 1
       /\ EntityComponent_getComponent(inst[1]) = 2
    \/ /\ kind[1] = "Avatar" /\ kind[2] = "Avatar"
       /\ startCount[1] = 2 /\ startCount[2] >= 1
       /\ AvatarComponent_getComponent = 2

\* C10 as stated: a component the registries return has completed an onInit,
\* and no component enters onInit while a lookup returns it.
C10_NeverSeenInsideInit ==
    /\ [](\A c \in Comps :
             (\/ kind[c] = "Entity" /\ EntityComponent_getComponent(inst[c]) = c
              \/ kind[c] = "Avatar" /\ AvatarComponent_getComponent = c)
                 => initCount[c] >= 1)
    /\ [][\A c \in Comps :
             initCount'[c] > initCount[c] =>
                 /\ kind[c] = "Entity" => EntityComponent_getComponent(inst[c]) # c
                 /\ kind[c] = "Avatar" => AvatarComponent_getComponent # c]_vars
----------------------------------------------------------------------------
(* The bootstrap at the end of the client script.  The slots of Comps hold  *)
(* the controllers of the list, in list order.                              *)

\* BaseController itself (a controller that inherits onInit and onStart), and
\* the two controllers the script declares.
ControllerKinds == {"BaseController", "LifecycleController", "ComponentController"}

\* BaseController.onInit and ComponentController.onInit have empty bodies, and
\* LifecycleController inherits the former.
Controller_onInit(w, c) == [w EXCEPT !.initCount[c] = @ + 1]

\* BaseController.onStart: active = true.  LifecycleController.onStart connects
\* three RunService signals and ComponentController.onStart is empty: neither
\* calls super.onStart().
Controller_onStart(w, c) ==
    IF kind[c] = "BaseController"
    THEN [w EXCEPT !.active[c] = TRUE, !.startCount[c] = @ + 1]
    ELSE [w EXCEPT !.startCount[c] = @ + 1]

\* BaseController.destroy: if (destructed) return; _cleanup.destroy();
\* destructed = true; active = false.
BaseController_destroy(w, c, depth) ==
    IF w.destructed[c] THEN w
    ELSE MarkDestructed(Bin_destroy(w, c, depth), c)

\* A scheduler that resumes the closure deferred last first.
DeferOnStart_Front(q, c) == <<c>> \o q

\* task.defer(() => controllers[i].onStart()): the closure joins the queue of
\* deferred closures at its end.
DeferOnStart(q, c) == Append(q, c)

\* The loop variable after one more pass, or the next phase after the last.
BootAdvance(next) ==
    IF boot.i = NComp THEN next ELSE [boot EXCEPT !.i = @ + 1]

\* The client script has reached its last four lines.
InitBoot ==
    /\ program = "client"
    /\ InitFields
    /\ kind \in [Comps -> ControllerKinds]
    /\ toolParent = [t \in Tools |-> Undefined]
    /\ boot = [phase |-> "init", i |-> 1]

\* for (const i of $range(0, max)) controllers[i].onInit()
BootInit ==
    /\ boot.phase = "init"
    /\ Commit(Controller_onInit(World, boot.i))
    /\ boot' = BootAdvance([phase |-> "defer", i |-> 1])
    /\ UNCHANGED <<program, freeVars, kind, inst, deferred, destroyCalls,
                   anchors, client, toolParent, toolGone, signalled, moves>>

\* for (const i of $range(0, max)) task.defer(() => controllers[i].onStart())
BootDefer ==
    /\ boot.phase = "defer"
    /\ deferred' = DeferOnStart(deferred, boot.i)
    /\ boot' = BootAdvance([phase |-> "done", i |-> 0])
    /\ status' = "ok"
    /\ UNCHANGED <<program, bins, log, freeVars, kind, inst, destructed, active,
                   attachedEntity, attachedAvatar, initCount, startCount,
                   initDestroyed, destroyCalls, tools, tracked, equipped,
                   childAdded, unequips,
                   anchors, client, toolParent, toolGone, signalled, moves>>

\* The script has run to its end, and the scheduler resumes the oldest
\* deferred closure, () => controllers[i].onStart().
OnStartDeferred ==
    /\ boot.phase = "done"
    /\ deferred # <<>>
    /\ Commit(Controller_onStart(World, Head(deferred)))
    /\ deferred' = Tail(deferred)
    /\ UNCHANGED <<program, freeVars, kind, inst, destroyCalls, envVars>>

\* controller.destroy(), which is public (the script itself puts nothing into
\* a controller's _cleanup): called by a controller's own onInit
\* override while the first loop runs, or by any code the scheduler resumes
\* once the script has run to its end.
ControllerDestroy(c) ==
    /\ boot.phase \in {"init", "done"}
    /\ destroyCalls[c] < MaxDestroys
    /\ Commit(BaseController_destroy(World, c, MaxDepth))
    /\ destroyCalls' = [destroyCalls EXCEPT ![c] = @ + 1]
    /\ UNCHANGED <<program, freeVars, kind, inst, deferred, envVars>>

NextBoot ==
    \/ BootInit
    \/ BootDefer
    \/ OnStartDeferred
    \/ \E c \in Comps : ControllerDestroy(c)

SpecBoot == InitBoot /\ [][NextBoot]_vars

\* The script is not interrupted, and the scheduler resumes every deferred
\* closure.
SpecBootFair ==
    /\ SpecBoot
    /\ WF_vars(BootInit) /\ WF_vars(BootDefer) /\ WF_vars(OnStartDeferred)

----------------------------------------------------------------------------
(* One character wrapper and the Tools around it.                           *)

\* Where the Tools of the model can be: nowhere, under the wrapped instance,
\* in the client's Backpack, or elsewhere.
ToolPlaces == {Undefined, 1, Backpack, Workspace}

\* The client script with every Tool already in the data model, under the
\* instance that will be wrapped or in the client's Backpack.
InitTools ==
    /\ program = "client"
    /\ InitFields
    /\ kind = [c \in Comps |-> "none"]
    /\ toolParent \in [Tools -> {1, Backpack}]
    /\ boot = [phase |-> "none", i |-> 0]

\* tool.Parent = p, by the engine or by any script.
ToolMoved(t, p, order) ==
    /\ ~toolGone[t]
    /\ toolParent[t] # p
    /\ moves < MaxMoves
    /\ toolParent' = [toolParent EXCEPT ![t] = p]
    /\ moves' = moves + 1
    /\ Commit(ToolMovedAll(World, 1, t, p, order))
    /\ UNCHANGED <<program, freeVars, kind, inst, deferred, destroyCalls,
                   anchors, client, toolGone, signalled, boot>>

\* tool.Destroy(), by the engine or by any script.
ToolDestroyed(t) ==
    /\ ~toolGone[t]
    /\ toolGone' = [toolGone EXCEPT ![t] = TRUE]
    /\ toolParent' = [toolParent EXCEPT ![t] = Undefined]
    /\ Commit(ToolDestroyedAll(World, 1, t))
    /\ UNCHANGED <<program, freeVars, kind, inst, deferred, destroyCalls,
                   anchors, client, signalled, moves, boot>>

\* The wrapper is an EntityComponent, which has all of CharacterComponent's
\* Tool handling and whose run() is deferred twice.
NextTools ==
    \/ \E cl \in BOOLEAN : Construct(1, "Entity", 1, TRUE, cl)
    \/ RunDeferred("none")
    \/ DestroyCall(1)
    \/ \E t \in Tools, p \in ToolPlaces, order \in {"childAddedFirst", "ancestryFirst"} :
           ToolMoved(t, p, order)
    \/ \E t \in Tools : ToolDestroyed(t)

SpecTools == InitTools /\ [][NextTools]_vars

----------------------------------------------------------------------------
\* C11 as stated: a character wrapper whose HumanoidRootPart or Humanoid did
\* not appear within the wait has no run() scheduled and none executed, is
\* not active, and is returned by no getComponent.
C11_FailedConstructionInert ==
    \A c \in Comps :
        (kind[c] \in {"Character", "Entity", "Avatar"} /\ ~anchors[c]) =>
            /\ \A j \in 1..Len(deferred) : deferred[j] # c
            /\ initCount[c] = 0
            /\ ~active[c]
            /\ kind[c] = "Entity" => EntityComponent_getComponent(inst[c]) # c
            /\ kind[c] = "Avatar" => AvatarComponent_getComponent # c

\* C12: in the bootstrap onInit is called on the controllers in list order,
\* every onInit has returned before any onStart begins, the deferred onStart
\* calls run in list order, and every controller gets each call exactly once.
C12_InitAllThenStartInOrder ==
    /\ [](\A c \in Comps : initCount[c] <= 1 /\ startCount[c] <= 1)
    /\ [][\A c \in Comps :
             /\ initCount'[c] > initCount[c] =>
                    /\ \A x \in Comps : initCount[x] = (IF x < c THEN 1 ELSE 0)
                    /\ \A x \in Comps : startCount[x] = 0
             /\ startCount'[c] > startCount[c] =>
                    /\ \A x \in Comps : initCount[x] = 1
                    /\ \A x \in Comps : startCount[x] = (IF x < c THEN 1 ELSE 0)]_vars
    /\ <>(\A c \in Comps : initCount[c] = 1 /\ startCount[c] = 1)

\* The bootstrap is over: every controller was initialised and started.
C12_Witness ==
    /\ boot.phase = "done"
    /\ deferred = <<>>
    /\ \A c \in Comps : initCount[c] = 1 /\ startCount[c] = 1

\* C16 as stated: no object is both destructed and active.
C16_DestroyedNeverActive ==
    \A c \in Comps : ~(destructed[c] /\ active[c])

\* C20 as stated: the _cleanup of a destructed component is empty.
C20_DestroyedHoldsNothing ==
    \A c \in Comps : destructed[c] => Bin_isEmpty(bins[c])

----------------------------------------------------------------------------
(* Properties of the Tools a character wrapper tracks, checked under        *)
(* SpecTools.                                                               *)

\* Component c follows Tool t: it tracks it and has not been destroyed.
Follows(c, t) == t \in tracked[c] /\ ~destructed[c] /\ ~toolGone[t]

\* C13 as stated: a step calls onUnequipped(t) once if it changes the parent
\* of a followed Tool t from the wrapped instance to anything else, and does
\* not call it otherwise.
C13_UnequippedOncePerDeparture ==
    [][\A c \in Comps, t \in Tools :
          (Follows(c, t) /\ ~toolGone'[t]) =>
              unequips'[t] - unequips[t] =
                  (IF toolParent[t] = inst[c] /\ toolParent'[t] # inst[c] THEN 1 ELSE 0)]_vars

\* C14: a Tool is in tools exactly if it is in _tools, and is in tools once.
C14_ToolsMatchSet ==
    \A c \in Comps :
        /\ {tools[c][i] : i \in 1..Len(tools[c])} = tracked[c]
        /\ Len(tools[c]) = Cardinality(tracked[c])

\* An EntityComponent with a client ran twice, tracked both Tools, saw the
\* first of them destroyed, and was destroyed.
C14_Witness ==
    /\ kind[1] = "Entity"
    /\ client[1]
    /\ initCount[1] = 2
    /\ toolGone[1]
    /\ tools[1] = <<2>>
    /\ moves >= 2
    /\ destructed[1]

\* C15 as stated: every Tool in equipped has the wrapped instance as parent.
C15_EquippedAreChildren ==
    \A c \in Comps : \A t \in equipped[c] : toolParent[t] = inst[c]

====
